---- MODULE Spec2Model ----
(***************************************************************************)
(* The thread pool of src/os_threadpool.c driven by the graph traversal of *)
(* src/parallel.c: one submitter (main) and num_threads workers sharing a  *)
(* task list, the pool mutex with its two condition variables, and the     *)
(* graph mutex that guards visited[] and sum.                              *)
(*                                                                         *)
(* A thread takes one step to acquire a mutex and one step for the code it *)
(* runs while holding it, up to the unlock or the pthread_cond_wait that   *)
(* releases it: nothing another thread does can fall in between.           *)
(***************************************************************************)
EXTENDS Integers, Sequences, FiniteSets

\* Largest num_threads handed to create_threadpool (main passes NUM_THREADS).
MaxThreads == 2

\* The submitter's thread id; the workers are 1..num_threads.
MainThread == 0

\* One worker more than Spec starts, for the runs of WideSpec
WidePool == MaxThreads + 1

Workers == 1..WidePool

\* Input graphs (create_graph_from_file): node count, neighbour lists, values.
IsolatedGraph ==
    [n |-> 1, neighbours |-> [i \in {0} |-> <<>>], info |-> [i \in {0} |-> 42]]

FanOutGraph ==
    [n |-> 4,
     neighbours |-> [i \in 0..3 |->
                       CASE i = 0 -> <<1, 2>>
                         [] i = 1 -> <<0>>
                         [] i = 2 -> <<>>
                         [] OTHER -> <<0>>],
     info |-> [i \in 0..3 |-> CASE i = 0 -> 1 [] i = 1 -> 2 [] i = 2 -> 4 [] OTHER -> 8]]

Graphs == {IsolatedGraph, FanOutGraph}

VARIABLES
    graph,            \* parallel.c: graph (nodes, neighbours, info)
    visited,          \* graph->visited[]
    sum,              \* parallel.c: static int sum
    gmutex,           \* parallel.c: pthread_mutex_t mutex; the set of its holders
    num_threads,      \* tp->num_threads
    queue,            \* tp->head: the list, head.next first, head.prev last
    waiting_threads,  \* tp->waiting_threads
    stop_work,        \* tp->stop_work
    mutex,            \* tp->mutex; the set of its holders
    pc,               \* position of every thread (0 is main)
    mi,               \* main: the index i of the create and join loops
    cur,              \* worker: the task t returned by dequeue_task (0 is NULL)
    newt,             \* process_node: the task being enqueued (0 is none)
    li,               \* process_graph: the index i of the neighbour loop
    task_arg,         \* every task created so far: *(unsigned int *)t->argument
    creator,          \* history: the thread that created and enqueued the task
    enq_stop,         \* history: stop_work when the task was appended (-1: not yet)
    returned,         \* history: times dequeue_task returned the task
    executed,         \* history: times the task's action ran to completion
    destroyed,        \* history: times destroy_task was called on the task
    purged,           \* history: the tasks destroy_threadpool found in the list
    stop_sets         \* history: times stop_work changed from 0 to 1

vars == <<graph, visited, sum, gmutex, num_threads, queue, waiting_threads,
          stop_work, mutex, pc, mi, cur, newt, li, task_arg, creator, enq_stop,
          returned, executed, destroyed, purged, stop_sets>>

graphVars == <<graph, visited, sum>>
histVars == <<creator, enq_stop, returned, executed, destroyed, purged, stop_sets>>

Tasks == 1..Len(task_arg)

\* ---------------------------------------------------------------- helpers

\* queue_is_empty: list_empty(&tp->head)
queue_is_empty(q) == q = <<>>

\* list_add(&tp->head, &t->list): the node goes right after the head
list_add(q, t) == <<t>> \o q

\* list_entry(tp->head.prev, ...): the node before the head, the oldest
list_tail(q) == q[Len(q)]

\* Mutant: list_del(tp->head.next), the newest node instead of the returned one
list_del_head(q) == Tail(q)

\* list_del(tp->head.prev)
list_del_tail(q) == SubSeq(q, 1, Len(q) - 1)

\* The threads blocked in pthread_cond_wait(&tp->cond_queue, ...)
CondQueueWaiters == {w \in Workers : pc[w] = "dq_wait"}

\* pthread_cond_signal(&tp->cond_queue): the sets of threads it may unblock
\* (one of the waiters, none when nobody waits)
cond_signal(waiters) ==
    IF waiters = {} THEN {{}} ELSE {{w} : w \in waiters}

\* Mutant: the broadcast reaches no waiter
cond_broadcast_lost(waiters) == {}

\* pthread_cond_broadcast(&tp->cond_queue): unblocks every waiter
cond_broadcast(waiters) == waiters

\* pc after the threads in woken leave pthread_cond_wait (mutex not yet reacquired)
Wake(p, woken) == [t \in DOMAIN p |-> IF t \in woken THEN "dq_woken" ELSE p[t]]

\* dequeue_task's test that the caller is the last thread to go idle
LastIdle == waiting_threads = num_threads - 1

\* create_task: a fresh task holding the node index
NewTaskId == Len(task_arg) + 1

\* The elements of a sequence
Range(q) == {q[k] : k \in DOMAIN q}

\* How many times x occurs in the sequence q
Occurrences(q, x) == Cardinality({k \in DOMAIN q : q[k] = x})

\* The nodes reachable from the nodes in s along the neighbour lists
RECURSIVE Reach(_, _)
Reach(g, s) ==
    LET next == s \cup UNION {Range(g.neighbours[i]) : i \in s}
    IN IF next = s THEN s ELSE Reach(g, next)

RECURSIVE SumInfo(_, _)
SumInfo(g, s) ==
    IF s = {} THEN 0
    ELSE LET i == CHOOSE i \in s : TRUE IN g.info[i] + SumInfo(g, s \ {i})

\* What the traversal seeded at node 0 has to print
ExpectedSum == SumInfo(graph, Reach(graph, {0}))

Bump(f, t) == [f EXCEPT ![t] = @ + 1]

\* ------------------------------------------------------------------- Init

\* main up to create_threadpool's field initialisation (parallel.c 86-91,
\* os_threadpool.c 173-190): no thread is created yet. The graph read from the
\* file is one of graphs, the pool size one of sizes.
Start(graphs, sizes) ==
    /\ graph \in graphs
    /\ visited = [i \in 0..(graph.n - 1) |-> "NOT_VISITED"]
    /\ sum = 0
    /\ gmutex = {}
    /\ num_threads \in sizes
    /\ queue = <<>>
    /\ waiting_threads = 0
    /\ stop_work = 0
    /\ mutex = {}
    /\ pc = [t \in {MainThread} \cup Workers |->
               IF t = MainThread THEN "create" ELSE "unborn"]
    /\ mi = 0
    /\ cur = [w \in Workers |-> 0]
    /\ newt = [t \in {MainThread} \cup Workers |-> 0]
    /\ li = [w \in Workers |-> 0]
    /\ task_arg = <<>>
    /\ creator = <<>>
    /\ enq_stop = <<>>
    /\ returned = <<>>
    /\ executed = <<>>
    /\ destroyed = <<>>
    /\ purged = {}
    /\ stop_sets = 0

Init == Start(Graphs, 1..MaxThreads)

\* process_node: malloc the index, create_task, then call enqueue_task
process_node(th, idx) ==
    /\ task_arg' = Append(task_arg, idx)
    /\ creator' = Append(creator, th)
    /\ enq_stop' = Append(enq_stop, -1)
    /\ returned' = Append(returned, 0)
    /\ executed' = Append(executed, 0)
    /\ destroyed' = Append(destroyed, 0)
    /\ newt' = [newt EXCEPT ![th] = NewTaskId]
    /\ pc' = [pc EXCEPT ![th] = "enq_lock"]

\* ------------------------------------------------------------ enqueue_task

\* enqueue_task line 55: pthread_mutex_lock
EnqueueLock(th) ==
    /\ pc[th] = "enq_lock"
    /\ mutex = {}
    /\ mutex' = {th}
    /\ pc' = [pc EXCEPT ![th] = "enq_locked"]
    /\ UNCHANGED <<graphVars, gmutex, num_threads, queue, waiting_threads,
                   stop_work, mi, cur, newt, li, task_arg, histVars>>

\* enqueue_task lines 60-66: signal cond_queue if the list is empty, add the
\* task, unlock; then back in the caller (main 93, or the loop of process_graph)
EnqueueBody(th) ==
    /\ pc[th] = "enq_locked"
    /\ \E woken \in (IF queue_is_empty(queue)
                       THEN cond_signal(CondQueueWaiters) ELSE {{}}) :
          pc' = [Wake(pc, woken) EXCEPT
                   ![th] = IF th = MainThread THEN "wfc_lock" ELSE "pg_loop"]
    /\ queue' = list_add(queue, newt[th])
    /\ mutex' = {}
    /\ enq_stop' = [enq_stop EXCEPT ![newt[th]] = stop_work]
    /\ newt' = [newt EXCEPT ![th] = 0]
    /\ li' = [w \in Workers |-> IF w = th THEN li[w] + 1 ELSE li[w]]
    /\ UNCHANGED <<graphVars, gmutex, num_threads, waiting_threads, stop_work,
                   mi, cur, task_arg, creator, returned, executed, destroyed,
                   purged, stop_sets>>

\* ------------------------------------------------------------ dequeue_task

\* dequeue_task line 86: pthread_mutex_lock
DequeueLock(w) ==
    /\ pc[w] = "dq_lock"
    /\ mutex = {}
    /\ mutex' = {w}
    /\ pc' = [pc EXCEPT ![w] = "dq_locked"]
    /\ UNCHANGED <<graphVars, gmutex, num_threads, queue, waiting_threads,
                   stop_work, mi, cur, newt, li, task_arg, histVars>>

\* Mutant: the flag assigned from the test, so a later caller clears it
stop_as_test == IF LastIdle THEN 1 ELSE 0

\* dequeue_task lines 92-93: the flag after the caller's test
stop_after_test == IF LastIdle THEN 1 ELSE stop_work

\* Mutant: the decrement forgotten
leave_wait_skip(wt) == wt

\* dequeue_task line 118: waiting_threads--
leave_wait(wt) == wt - 1

\* dequeue_task lines 92-97: the caller that finds every other thread waiting
\* sets stop_work and broadcasts; every caller counts itself as waiting
DequeueEnter(w) ==
    /\ pc[w] = "dq_locked"
    /\ stop_work' = stop_after_test
    /\ stop_sets' = IF stop_work = 0 /\ stop_work' = 1 THEN stop_sets + 1 ELSE stop_sets
    /\ pc' = [(IF LastIdle THEN Wake(pc, cond_broadcast(CondQueueWaiters)) ELSE pc)
                EXCEPT ![w] = "dq_loop"]
    /\ waiting_threads' = waiting_threads + 1
    /\ UNCHANGED <<graphVars, gmutex, num_threads, queue, mutex, mi, cur, newt,
                   li, task_arg, creator, enq_stop, returned, executed,
                   destroyed, purged>>

\* pthread_cond_wait returning: the woken thread takes the mutex again
DequeueReacquire(w) ==
    /\ pc[w] = "dq_woken"
    /\ mutex = {}
    /\ mutex' = {w}
    /\ pc' = [pc EXCEPT ![w] = "dq_relocked"]
    /\ UNCHANGED <<graphVars, gmutex, num_threads, queue, waiting_threads,
                   stop_work, mi, cur, newt, li, task_arg, histVars>>

\* Mutant: if instead of while, a woken thread does not test again
wait_test_once(w) ==
    queue_is_empty(queue) /\ stop_work = 0 /\ pc[w] # "dq_relocked"

\* Mutant: the loop waits for a task whatever stop_work says
wait_test_ignores_stop(w) == queue_is_empty(queue)

\* dequeue_task line 99: the condition of the wait loop
wait_test(w) == queue_is_empty(queue) /\ stop_work = 0

\* Mutant: no task is taken once stop_work is set
take_test_unless_stopped == ~queue_is_empty(queue) /\ stop_work = 0

\* dequeue_task line 106: is there a task to take
take_test == ~queue_is_empty(queue)

\* Mutant: the unlock before the return forgotten
dequeue_unlock_missing(w) == {w}

\* dequeue_task line 120: pthread_mutex_unlock, the holders it leaves
dequeue_unlock(w) == {}

\* dequeue_task lines 99-122 with the mutex held, on entry and after every
\* wake-up; a returned task goes to thread_loop_function line 136, NULL ends it
DequeueLoop(w) ==
    /\ pc[w] \in {"dq_loop", "dq_relocked"}
    /\ IF wait_test(w)
       THEN \* line 103: pthread_cond_wait releases the mutex and blocks
            /\ pc' = [pc EXCEPT ![w] = "dq_wait"]
            /\ mutex' = {}
            /\ UNCHANGED <<queue, cur, returned, waiting_threads>>
       ELSE /\ mutex' = dequeue_unlock(w)
            /\ waiting_threads' = leave_wait(waiting_threads)
            /\ IF take_test
               THEN \* lines 106-113: take the oldest task, signal work_done
                    /\ queue' = list_del_tail(queue)
                    /\ cur' = [cur EXCEPT ![w] = list_tail(queue)]
                    /\ returned' = Bump(returned, list_tail(queue))
                    /\ pc' = [pc EXCEPT ![w] = "pg_lock",
                                        ![MainThread] =
                                            IF @ = "wfc_wait" THEN "wfc_woken" ELSE @]
               ELSE \* t stays NULL: thread_loop_function breaks
                    /\ cur' = [cur EXCEPT ![w] = 0]
                    /\ pc' = [pc EXCEPT ![w] = "exit"]
                    /\ UNCHANGED <<queue, returned>>
    /\ UNCHANGED <<graphVars, gmutex, num_threads, stop_work, mi, newt, li,
                   task_arg, creator, enq_stop, executed, destroyed, purged,
                   stop_sets>>

\* A waiter may leave pthread_cond_wait without any signal (POSIX)
SpuriousWake(t) ==
    /\ \/ t \in Workers /\ pc[t] = "dq_wait" /\ pc' = [pc EXCEPT ![t] = "dq_woken"]
       \/ t = MainThread /\ pc[t] = "wfc_wait" /\ pc' = [pc EXCEPT ![t] = "wfc_woken"]
    /\ UNCHANGED <<graphVars, gmutex, num_threads, queue, waiting_threads,
                   stop_work, mutex, mi, cur, newt, li, task_arg, histVars>>

\* ----------------------------------------------------------- process_graph

\* thread_loop_function line 136 calls the action; process_graph line 32
\* locks the graph mutex
PgLock(w) ==
    /\ pc[w] = "pg_lock"
    /\ gmutex = {}
    /\ gmutex' = {w}
    /\ pc' = [pc EXCEPT ![w] = "pg_locked"]
    /\ UNCHANGED <<graphVars, num_threads, queue, waiting_threads, stop_work,
                   mutex, mi, cur, newt, li, task_arg, histVars>>

\* process_graph lines 37-48: return at once from a visited node, else mark
\* the node DONE and add its value to sum
PgVisit(w) ==
    /\ pc[w] = "pg_locked"
    /\ LET idx == task_arg[cur[w]] IN
       IF visited[idx] # "NOT_VISITED"
       THEN /\ gmutex' = {}
            /\ executed' = Bump(executed, cur[w])
            /\ pc' = [pc EXCEPT ![w] = "destroy"]
            /\ UNCHANGED <<visited, sum, li>>
       ELSE /\ visited' = [visited EXCEPT ![idx] = "DONE"]
            /\ sum' = sum + graph.info[idx]
            /\ li' = [li EXCEPT ![w] = 0]
            /\ pc' = [pc EXCEPT ![w] = "pg_loop"]
            /\ UNCHANGED <<gmutex, executed>>
    /\ UNCHANGED <<graph, num_threads, queue, waiting_threads, stop_work, mutex,
                   mi, cur, newt, task_arg, creator, enq_stop, returned,
                   destroyed, purged, stop_sets>>

\* process_graph lines 51-54: one task per neighbour, made and enqueued with
\* the graph mutex held; after the last one unlock and return
PgNext(w) ==
    /\ pc[w] = "pg_loop"
    /\ LET nb == graph.neighbours[task_arg[cur[w]]] IN
       IF li[w] < Len(nb)
       THEN /\ process_node(w, nb[li[w] + 1])
            /\ UNCHANGED gmutex
       ELSE /\ gmutex' = {}
            /\ executed' = Bump(executed, cur[w])
            /\ pc' = [pc EXCEPT ![w] = "destroy"]
            /\ UNCHANGED <<newt, task_arg, creator, enq_stop, returned, destroyed>>
    /\ UNCHANGED <<graphVars, num_threads, queue, waiting_threads, stop_work,
                   mutex, mi, cur, li, purged, stop_sets>>

\* thread_loop_function line 137: destroy_task(t), then dequeue again
DestroyTask(w) ==
    /\ pc[w] = "destroy"
    /\ destroyed' = Bump(destroyed, cur[w])
    /\ cur' = [cur EXCEPT ![w] = 0]
    /\ pc' = [pc EXCEPT ![w] = "dq_lock"]
    /\ UNCHANGED <<graphVars, gmutex, num_threads, queue, waiting_threads,
                   stop_work, mutex, mi, newt, li, task_arg, creator, enq_stop,
                   returned, executed, purged, stop_sets>>

\* -------------------------------------------------------------------- main

\* create_threadpool lines 191-194: pthread_create starts worker mi + 1 in
\* thread_loop_function
CreateThread ==
    /\ pc[MainThread] = "create"
    /\ mi < num_threads
    /\ pc' = [pc EXCEPT ![mi + 1] = "dq_lock"]
    /\ mi' = mi + 1
    /\ UNCHANGED <<graphVars, gmutex, num_threads, queue, waiting_threads,
                   stop_work, mutex, cur, newt, li, task_arg, histVars>>

\* main line 92: process_node(0) once create_threadpool has returned
SeedTask ==
    /\ pc[MainThread] = "create"
    /\ mi = num_threads
    /\ process_node(MainThread, 0)
    /\ UNCHANGED <<graphVars, gmutex, num_threads, queue, waiting_threads,
                   stop_work, mutex, mi, cur, li, purged, stop_sets>>

\* wait_for_completion line 148: pthread_mutex_lock
WaitLock ==
    /\ pc[MainThread] = "wfc_lock"
    /\ mutex = {}
    /\ mutex' = {MainThread}
    /\ pc' = [pc EXCEPT ![MainThread] = "wfc_locked"]
    /\ UNCHANGED <<graphVars, gmutex, num_threads, queue, waiting_threads,
                   stop_work, mi, cur, newt, li, task_arg, histVars>>

\* wait_for_completion's loop condition, line 150
WaitCondition == ~queue_is_empty(queue) /\ stop_work = 0

\* wait_for_completion lines 150-157: wait on work_done while the condition
\* holds, else unlock and start joining
WaitBody ==
    /\ pc[MainThread] = "wfc_locked"
    /\ mutex' = {}
    /\ IF WaitCondition
       THEN pc' = [pc EXCEPT ![MainThread] = "wfc_wait"] /\ UNCHANGED mi
       ELSE pc' = [pc EXCEPT ![MainThread] = "join"] /\ mi' = 0
    /\ UNCHANGED <<graphVars, gmutex, num_threads, queue, waiting_threads,
                   stop_work, cur, newt, li, task_arg, histVars>>

\* pthread_cond_wait(&tp->work_done, ...) returning: main takes the mutex again
WaitReacquire ==
    /\ pc[MainThread] = "wfc_woken"
    /\ mutex = {}
    /\ mutex' = {MainThread}
    /\ pc' = [pc EXCEPT ![MainThread] = "wfc_locked"]
    /\ UNCHANGED <<graphVars, gmutex, num_threads, queue, waiting_threads,
                   stop_work, mi, cur, newt, li, task_arg, histVars>>

\* Mutant: the join loop does not wait for the thread to end
JoinThreadNoWait ==
    /\ pc[MainThread] = "join"
    /\ mi < num_threads
    /\ mi' = mi + 1
    /\ pc' = [pc EXCEPT ![MainThread] =
                IF mi + 1 = num_threads THEN "destroy_tp" ELSE "join"]
    /\ UNCHANGED <<graphVars, gmutex, num_threads, queue, waiting_threads,
                   stop_work, mutex, cur, newt, li, task_arg, histVars>>

\* wait_for_completion lines 160-161: pthread_join(tp->threads[mi]) returns
\* once that worker has left thread_loop_function; after the last join
\* wait_for_completion returns
JoinThread ==
    /\ pc[MainThread] = "join"
    /\ mi < num_threads
    /\ pc[mi + 1] = "exit"
    /\ mi' = mi + 1
    /\ pc' = [pc EXCEPT ![MainThread] =
                IF mi + 1 = num_threads THEN "destroy_tp" ELSE "join"]
    /\ UNCHANGED <<graphVars, gmutex, num_threads, queue, waiting_threads,
                   stop_work, mutex, cur, newt, li, task_arg, histVars>>

\* Mutant: the list is emptied without destroy_task
DestroyThreadpoolLeak ==
    /\ pc[MainThread] = "destroy_tp"
    /\ purged' = Range(queue)
    /\ queue' = <<>>
    /\ pc' = [pc EXCEPT ![MainThread] = "printf"]
    /\ UNCHANGED <<graphVars, gmutex, num_threads, waiting_threads, stop_work,
                   mutex, mi, cur, newt, li, task_arg, creator, enq_stop,
                   returned, executed, destroyed, stop_sets>>

\* destroy_threadpool lines 209-219: destroy_task on every task left in the list
DestroyThreadpool ==
    /\ pc[MainThread] = "destroy_tp"
    /\ purged' = Range(queue)
    /\ destroyed' = [t \in Tasks |-> destroyed[t] + Occurrences(queue, t)]
    /\ queue' = <<>>
    /\ pc' = [pc EXCEPT ![MainThread] = "printf"]
    /\ UNCHANGED <<graphVars, gmutex, num_threads, waiting_threads, stop_work,
                   mutex, mi, cur, newt, li, task_arg, creator, enq_stop,
                   returned, executed, stop_sets>>

\* main lines 95-98: destroy the graph mutex, print sum, return
PrintSum ==
    /\ pc[MainThread] = "printf"
    /\ pc' = [pc EXCEPT ![MainThread] = "done"]
    /\ UNCHANGED <<graphVars, gmutex, num_threads, queue, waiting_threads,
                   stop_work, mutex, mi, cur, newt, li, task_arg, histVars>>

\* ------------------------------------------------------------ specification

WorkerStep(w) ==
    \/ DequeueLock(w)
    \/ DequeueEnter(w)
    \/ DequeueReacquire(w)
    \/ DequeueLoop(w)
    \/ PgLock(w)
    \/ PgVisit(w)
    \/ PgNext(w)
    \/ EnqueueLock(w)
    \/ EnqueueBody(w)
    \/ DestroyTask(w)

MainStep ==
    \/ CreateThread
    \/ SeedTask
    \/ EnqueueLock(MainThread)
    \/ EnqueueBody(MainThread)
    \/ WaitLock
    \/ WaitBody
    \/ WaitReacquire
    \/ JoinThread
    \/ DestroyThreadpool
    \/ PrintSum

Next ==
    \/ MainStep
    \/ \E w \in Workers : WorkerStep(w)
    \/ \E t \in {MainThread} \cup Workers : SpuriousWake(t)

Spec == Init /\ [][Next]_vars

\* Every thread that can run is eventually scheduled, and a thread waiting
\* for a mutex that is released again and again eventually gets it; nothing
\* obliges a waiter on a condition variable to wake without a signal.
FairSpec ==
    /\ Spec
    /\ SF_vars(MainStep)
    /\ \A w \in Workers : SF_vars(WorkerStep(w))

\* The fan-out graph on a pool of WidePool workers
WideInit == Start({FanOutGraph}, {WidePool})

WideSpec == WideInit /\ [][Next]_vars

\* ------------------------------------------------------------------ claims

Pool == 1..num_threads

\* main is past wait_for_completion
WaitReturned == pc[MainThread] \in {"destroy_tp", "printf", "done"}

\* main is past destroy_threadpool
TornDown == pc[MainThread] \in {"printf", "done"}

\* The positions of a worker inside dequeue_task
InDequeue ==
    {"dq_lock", "dq_locked", "dq_loop", "dq_wait", "dq_woken", "dq_relocked"}

\* This step changes stop_work from 0 to 1
StopDeclared == stop_work = 0 /\ stop_work' = 1

\* C1: when wait_for_completion returns, every task ever enqueued has
\* completed execution and none is still pending in the queue.
C1_NoLostWork ==
    WaitReturned =>
        /\ \A t \in Tasks : executed[t] >= 1
        /\ pc[MainThread] = "destroy_tp" => queue = <<>>

\* C2: under fair scheduling every worker eventually leaves
\* thread_loop_function and wait_for_completion returns, so main runs to its
\* end: no thread stays blocked forever on cond_queue or work_done.
C2_NoDeadlock ==
    <>(pc[MainThread] = "done" /\ \A w \in Pool : pc[w] = "exit")

C2_Witness ==
    /\ pc[MainThread] = "done"
    /\ num_threads >= 2
    /\ \A w \in Pool : pc[w] = "exit"
    /\ Len(task_arg) >= 4
    /\ \A t \in Tasks : executed[t] = 1

\* C3: in every step that changes stop_work from 0 to 1 the queue is empty
\* and no worker is executing a task (every worker is inside dequeue_task).
C3_ShutdownOnlyAtQuiescence ==
    [][StopDeclared =>
         /\ queue = <<>>
         /\ \A w \in Pool : pc[w] \in InDequeue]_vars

\* C4: stop_work is not set to 1 between the enqueue of a task by a running
\* action and the moment that task starts executing: no step sets it while
\* a task enqueued by a worker is still in the queue.
C4_NoPrematureTermination ==
    [][StopDeclared =>
         \A k \in DOMAIN queue : creator[queue[k]] = MainThread]_vars

\* C5: a task is returned by dequeue_task at most once and its action runs at
\* most once, and every task enqueued while stop_work was 0 has been returned
\* once and executed once by the time wait_for_completion returns.
C5_ExactlyOnce ==
    /\ \A t \in Tasks :
          returned[t] <= 1 /\ executed[t] <= returned[t]
    /\ WaitReturned =>
          \A t \in Tasks : enq_stop[t] = 0 => returned[t] = 1 /\ executed[t] = 1

C5_Witness ==
    /\ WaitReturned
    /\ Len(task_arg) >= 4
    /\ \A t \in Tasks : enq_stop[t] = 0 /\ executed[t] = 1
    /\ \E t \in Tasks : creator[t] # MainThread

\* C6: destroy_task is never called twice on a task, and once
\* destroy_threadpool has finished it has been called exactly once on every
\* task: by the purge for the tasks no worker was given, by the worker that
\* ran the task for the others.
C6_DisposalExactlyOnce ==
    /\ \A t \in Tasks : destroyed[t] <= 1
    /\ TornDown =>
          \A t \in Tasks :
             /\ destroyed[t] = 1
             /\ t \in purged <=> returned[t] = 0

C6_Witness ==
    /\ TornDown
    /\ purged # {}
    /\ \A t \in Tasks : destroyed[t] = 1

\* C7: when main reaches printf, sum is the sum of the values of the nodes
\* reachable from node 0.
C7_TraversalSum == TornDown => sum = ExpectedSum

\* C8: 0 <= waiting_threads <= num_threads in every reachable state.
C8_IdleCountBounds == waiting_threads \in 0..num_threads

C8_Witness ==
    /\ num_threads >= 2
    /\ waiting_threads = num_threads
    /\ \E t \in Tasks : returned[t] = 1

\* C9: stop_work starts at 0, changes from 0 to 1 at most once and is never
\* set back to 0.
C9_StopMonotonic ==
    /\ stop_work = 0
    /\ [][(stop_work = 1 => stop_work' = 1) /\ stop_sets' <= 1]_vars

C9_Witness ==
    /\ stop_work = 1
    /\ stop_sets = 1
    /\ \E t \in Tasks : enq_stop[t] = 1
    /\ \E w \in Pool : pc[w] = "dq_locked" /\ ~LastIdle

\* C10: once stop_work is 1 no enqueue_task call appends a task.
C10_NoProductionAfterShutdown ==
    [][stop_work = 1 => Len(queue') <= Len(queue)]_vars

\* C11: every enqueue_task call that appends a task while a worker is blocked
\* on cond_queue wakes at least one blocked worker, also when the queue
\* already held tasks.
C11_EnqueueWakesIdleWorker ==
    [][(Len(queue') > Len(queue) /\ CondQueueWaiters # {}) =>
          \E w \in CondQueueWaiters : pc'[w] = "dq_woken"]_vars

\* C12: dequeue_task returns NULL only when stop_work is 1 and the queue is
\* empty, returns a task only by removing it from the queue, and a worker
\* woken from pthread_cond_wait with the queue empty and stop_work 0 goes back
\* to waiting.
C12_DequeueResultDiscipline ==
    [][\A w \in Pool :
          /\ (pc[w] # "exit" /\ pc'[w] = "exit") =>
                stop_work = 1 /\ queue = <<>> /\ cur'[w] = 0
          /\ (pc[w] \in InDequeue /\ pc'[w] = "pg_lock") =>
                /\ cur'[w] \in Range(queue)
                /\ Occurrences(queue', cur'[w]) = Occurrences(queue, cur'[w]) - 1
                /\ Len(queue') = Len(queue) - 1
          /\ (pc[w] = "dq_relocked" /\ pc'[w] # "dq_relocked"
                /\ queue = <<>> /\ stop_work = 0) =>
                pc'[w] = "dq_wait"]_vars

C12_Witness ==
    \E w \in Pool :
       /\ pc[w] = "dq_relocked"
       /\ queue = <<>>
       /\ stop_work = 0
       /\ \E v \in Pool : pc[v] \in {"pg_lock", "pg_locked", "pg_loop"}

\* The positions of a worker between the call of t->action and its return
InAction == {"pg_lock", "pg_locked", "pg_loop", "enq_lock", "enq_locked"}

\* C13: the submitter leaves the wait loop of wait_for_completion only in a
\* state where the queue is empty and no worker is executing a task.
C13_DrainWaitQuiescence ==
    [][(pc[MainThread] = "wfc_locked" /\ pc'[MainThread] = "join") =>
          /\ queue = <<>>
          /\ \A w \in Pool : pc[w] \notin InAction]_vars

\* C14: destroy_threadpool starts only after every worker has left
\* thread_loop_function: from the return of wait_for_completion on, no worker
\* is inside dequeue_task or running an action, and nobody holds the mutexes.
C14_TeardownOrdering ==
    WaitReturned =>
        /\ \A w \in Pool : pc[w] = "exit"
        /\ mutex = {}
        /\ gmutex = {}

C14_Witness ==
    /\ pc[MainThread] = "destroy_tp"
    /\ num_threads >= 2
    /\ stop_work = 1
    /\ \E t \in Tasks : executed[t] = 1 /\ creator[t] # MainThread

\* C15 as stated: in every state in which a worker is running t->action it
\* does not hold tp->mutex.
C15_LockNeverHeldInAction ==
    \A w \in Pool : pc[w] \in InAction => w \notin mutex

\* C15 amended: a worker running t->action holds tp->mutex only inside the
\* critical section of an enqueue_task call the action itself makes; it never
\* carries the mutex of dequeue_task into the action.
C15_LockHeldOnlyInEnqueue ==
    \A w \in Pool : (pc[w] \in InAction /\ w \in mutex) => pc[w] = "enq_locked"

\* Two workers are executing actions at once, and a third party is free to
\* take the pool mutex
C15_Witness ==
    \E w, v \in Pool :
       /\ w # v
       /\ pc[w] \in {"pg_locked", "pg_loop"}
       /\ pc[v] = "pg_lock"
       /\ mutex = {}

\* Every worker of the pool has left thread_loop_function
AllExited == \A w \in Pool : pc[w] = "exit"

\* C16: every task enqueued from inside a running action has been dequeued
\* and executed once the last worker has exited, whatever stop_work was when
\* it was enqueued; a worker exits only on seeing the queue empty with the
\* mutex held; and under fair scheduling the workers do all exit.
C16_ChildTasksRun ==
    /\ [](AllExited =>
            \A t \in Tasks :
               creator[t] # MainThread => returned[t] = 1 /\ executed[t] = 1)
    /\ [][\A w \in Pool :
            (pc[w] # "exit" /\ pc'[w] = "exit") => queue = <<>> /\ w \in mutex]_vars
    /\ <>AllExited

C16_Witness ==
    \E w, v \in Pool : \E t \in Tasks :
       /\ w # v
       /\ pc[v] = "exit"
       /\ pc[w] = "destroy"
       /\ cur[w] = t
       /\ creator[t] = w
       /\ enq_stop[t] = 1
       /\ executed[t] = 1

\* C17: a task still in the queue when destroy_threadpool runs (and so purged
\* without having run) was enqueued by the submitter after stop_work had been
\* set; no task enqueued by a worker is left at teardown.
C17_PurgedOnlyLateSeed ==
    WaitReturned =>
        \A t \in Range(queue) \cup purged :
           /\ creator[t] = MainThread
           /\ enq_stop[t] = 1
           /\ returned[t] = 0

C17_Witness ==
    /\ pc[MainThread] = "destroy_tp"
    /\ queue # <<>>
    /\ num_threads >= 2

\* C18: once stop_work is 1 no worker is blocked on cond_queue: the step that
\* sets it releases every blocked worker, and every later pass through
\* dequeue_task's loop returns at once, the oldest task if the queue is not
\* empty and NULL otherwise.
C18_NoWaitAfterStop ==
    /\ [](stop_work = 1 => \A w \in Pool : pc[w] # "dq_wait")
    /\ [][StopDeclared => \A w \in CondQueueWaiters : pc'[w] = "dq_woken"]_vars
    /\ [][\A w \in Pool :
            (stop_work = 1 /\ pc[w] \in {"dq_loop", "dq_relocked"}
               /\ pc'[w] # pc[w]) =>
            IF queue # <<>>
            THEN pc'[w] = "pg_lock" /\ cur'[w] = list_tail(queue)
            ELSE pc'[w] = "exit" /\ cur'[w] = 0]_vars

C18_Witness ==
    /\ stop_work = 1
    /\ \E w, v \in Pool :
          /\ pc[w] = "dq_woken"
          /\ pc[v] = "dq_loop"
          /\ v \in mutex

\* The positions at which a thread is asking for the pool mutex
WantsPoolMutex == {"dq_lock", "dq_woken", "enq_lock", "wfc_lock", "wfc_woken"}

\* C19: no thread asks for the graph mutex while it holds the pool mutex; the
\* two are held together only by a worker inside enqueue_task called from
\* process_graph (graph mutex first); so no two threads wait for each other
\* on these mutexes.
C19_LockOrder ==
    /\ \A th \in {MainThread} \cup Pool :
          /\ pc[th] = "pg_lock" => th \notin mutex
          /\ (th \in mutex /\ th \in gmutex) => pc[th] = "enq_locked"
    /\ ~ \E a, b \in {MainThread} \cup Pool :
            /\ a \in gmutex /\ pc[a] \in WantsPoolMutex
            /\ b \in mutex /\ pc[b] = "pg_lock"

C19_Witness ==
    \E w, v \in Pool :
       /\ pc[w] = "enq_locked"
       /\ w \in gmutex
       /\ w \in mutex
       /\ pc[v] = "pg_lock"

====
